---------------------------- MODULE Spec2Model ----------------------------
(***************************************************************************)
(* A CHIP-8 interpreter core: Ram, Chip8Display, the registers, the        *)
(* instruction decoder and the Executor's load_program / execute_once.     *)
(* Every operator below is a translation of the Rust function of the same  *)
(* name; Rust's Result<T, E> is the record Ok(v) / Err(e).                 *)
(***************************************************************************)
EXTENDS Integers, Sequences, FiniteSets, TLC

VARIABLES
    memory,          \* Executor.memory : Ram { data: [u8; 4096] }
    gp_registers,    \* Executor.gp_registers : [RegisterV; 16]
    display,         \* Executor.display : Chip8Display { data: [[bool; 32]; 64] }
    i,               \* Executor.i : RegisterI
    pc,              \* Executor.pc : RegisterPC
    stack,           \* Executor.stack : Vec<Address>
    legacy_shift,    \* Executor.legacy_shift, fixed by Executor::new
    overflow_checks, \* whether the build panics on integer overflow (debug) or wraps (release)
    result,          \* the last call made on the Executor and what it returned
    cycles,          \* execute_once calls made by the host loop since the last load
    loads            \* load_program calls made so far

vars == <<memory, gp_registers, display, i, pc, stack, legacy_shift,
          overflow_checks, result, cycles, loads>>

(***************************************************************************)
(* Program constants                                                       *)
(***************************************************************************)
RamSize == 4096
ProgramStart == 512
DisplayWidth == 64
DisplayHeight == 32
NumRegisters == 16
FlagRegister == 15
U8Bits == 8
U8Max == 255
U16Max == 65535

(***************************************************************************)
(* Bounds of the model                                                     *)
(***************************************************************************)
MaxCycles == 10
MaxLoads == 2
MaxStack == 3

(***************************************************************************)
(* Rust's Result and the integer operators the code uses                   *)
(***************************************************************************)
Ok(v) == [kind |-> "Ok", val |-> v]
Err(e) == [kind |-> "Err", val |-> e]
IsOk(r) == r.kind = "Ok"
IsErr(r) == r.kind = "Err"
Unit == "()"
Panic == [kind |-> "Panic", val |-> Unit]
IsPanic(r) == r.kind = "Panic"

RECURSIVE BitAnd(_, _)
BitAnd(a, b) ==
    IF a = 0 \/ b = 0 THEN 0
    ELSE (a % 2) * (b % 2) + 2 * BitAnd(a \div 2, b \div 2)

RECURSIVE BitOr(_, _)
BitOr(a, b) ==
    IF a = 0 THEN b
    ELSE IF b = 0 THEN a
    ELSE (IF a % 2 = 1 \/ b % 2 = 1 THEN 1 ELSE 0) + 2 * BitOr(a \div 2, b \div 2)

RECURSIVE BitXor(_, _)
BitXor(a, b) ==
    IF a = 0 THEN b
    ELSE IF b = 0 THEN a
    ELSE ((a + b) % 2) + 2 * BitXor(a \div 2, b \div 2)

Shr(a, n) == a \div (2 ^ n)

\* `as u8` / `as u16`: truncation to the low bits
AsU8(a) == a % (U8Max + 1)
AsU16(a) == a % (U16Max + 1)

\* a + b on u8 / u16: a panic when the build checks overflow, a wrap otherwise
AddU8(checked, a, b) ==
    IF a + b > U8Max
    THEN (IF checked THEN Panic ELSE Ok(AsU8(a + b)))
    ELSE Ok(a + b)

AddU16(checked, a, b) ==
    IF a + b > U16Max
    THEN (IF checked THEN Panic ELSE Ok(AsU16(a + b)))
    ELSE Ok(a + b)

(***************************************************************************)
(* instructions.rs                                                         *)
(***************************************************************************)
Address(a) == a

\* An UnknownInstruction that keeps the 12 low bits of the opcode only
UnknownInstruction_low_bits(opcode) ==
    [error |-> "UnknownInstruction", opcode |-> opcode % \h1000]

UnknownInstruction(opcode) == [error |-> "UnknownInstruction", opcode |-> opcode]

separate_register_and_imm(opcode) ==
    LET register_index == AsU8(Shr(BitAnd(opcode, \h0F00), 8))
        immediate == AsU8(BitAnd(opcode, \h00FF))
    IN <<register_index, immediate>>

\* A separation with the two register fields exchanged
separate_two_registers_and_nibble_exchanged(opcode) ==
    LET register_index_1 == AsU8(Shr(BitAnd(opcode, \h00F0), 4))
        register_index_2 == AsU8(Shr(BitAnd(opcode, \h0F00), 8))
        nibble == AsU8(BitAnd(opcode, \h000F))
    IN <<register_index_1, register_index_2, nibble>>

separate_two_registers_and_nibble(opcode) ==
    LET register_index_1 == AsU8(Shr(BitAnd(opcode, \h0F00), 8))
        register_index_2 == AsU8(Shr(BitAnd(opcode, \h00F0), 4))
        nibble == AsU8(BitAnd(opcode, \h000F))
    IN <<register_index_1, register_index_2, nibble>>

\* impl TryFrom<u16> for Instruction
try_from(opcode) ==
    LET ri == separate_register_and_imm(opcode)
        rrn == separate_two_registers_and_nibble(opcode)
        group == BitAnd(opcode, \hF000)
    IN
    IF opcode = \h00E0 THEN Ok([tag |-> "ClearScreen"])
    ELSE IF opcode = \h00EE THEN Ok([tag |-> "Return"])
    ELSE CASE group = \h1000 ->
                Ok([tag |-> "JumpTo", address |-> Address(BitAnd(opcode, \h0FFF))])
           [] group = \h2000 ->
                Ok([tag |-> "Call", address |-> Address(BitAnd(opcode, \h0FFF))])
           [] group = \h3000 ->
                Ok([tag |-> "SkipIfEqVImm", reg_num |-> ri[1], imm |-> ri[2]])
           [] group = \h4000 ->
                Ok([tag |-> "SkipIfNotEqVImm", reg_num |-> ri[1], imm |-> ri[2]])
           [] group = \h5000 ->
                IF rrn[3] = 0
                THEN Ok([tag |-> "SkipIfEqualV2", x_reg_num |-> rrn[1], y_reg_num |-> rrn[2]])
                ELSE Err(UnknownInstruction(opcode))
           [] group = \h6000 ->
                Ok([tag |-> "LoadVImm", reg_num |-> ri[1], imm |-> ri[2]])
           [] group = \h7000 ->
                Ok([tag |-> "AddVImm", reg_num |-> ri[1], imm |-> ri[2]])
           [] group = \h8000 ->
                CASE rrn[3] = 0 ->
                       Ok([tag |-> "SetEqual", x_reg_num |-> rrn[1], y_reg_num |-> rrn[2]])
                  [] rrn[3] = 1 ->
                       Ok([tag |-> "BitWiseOrEqual", x_reg_num |-> rrn[1], y_reg_num |-> rrn[2]])
                  [] OTHER -> Err(UnknownInstruction(opcode))
           [] group = \h9000 ->
                IF rrn[3] = 0
                THEN Ok([tag |-> "SkipIfNotEqualV2", x_reg_num |-> rrn[1], y_reg_num |-> rrn[2]])
                ELSE Err(UnknownInstruction(opcode))
           [] group = \hA000 ->
                Ok([tag |-> "LoadIImm", imm |-> BitAnd(opcode, \h0FFF)])
           [] group = \hD000 ->
                Ok([tag |-> "Draw", x_reg_num |-> rrn[1], y_reg_num |-> rrn[2],
                    sprite_length |-> rrn[3]])
           [] group = \h0000 ->
                Ok([tag |-> "Sys", address |-> Address(BitAnd(opcode, \h0FFF))])
           [] OTHER -> Err(UnknownInstruction(opcode))

\* The variants main.rs dispatches on whose decoding is not in instructions.rs
\* (8xy2..8xy7, 8xyE, Fx1E, Fx33, Fx55, Fx65): the standard CHIP-8 encodings
\* of the instructions of the specification's table.
try_from_later_variants(opcode) ==
    LET rrn == separate_two_registers_and_nibble(opcode)
        ri == separate_register_and_imm(opcode)
        group == BitAnd(opcode, \hF000)
        xy(tag) == Ok([tag |-> tag, x_reg_num |-> rrn[1], y_reg_num |-> rrn[2]])
    IN
    CASE group = \h8000 /\ rrn[3] = 2 -> xy("BitWiseAndEqual")
      [] group = \h8000 /\ rrn[3] = 3 -> xy("BitWiseXorEqual")
      [] group = \h8000 /\ rrn[3] = 4 -> xy("AddV2")
      [] group = \h8000 /\ rrn[3] = 5 -> xy("SubV2")
      [] group = \h8000 /\ rrn[3] = 6 -> xy("ShiftRight")
      [] group = \h8000 /\ rrn[3] = 7 -> xy("SubNV2")
      [] group = \h8000 /\ rrn[3] = 14 -> xy("ShiftLeft")
      [] group = \hF000 /\ ri[2] = \h1E -> Ok([tag |-> "AddIV", register_num |-> ri[1]])
      [] group = \hF000 /\ ri[2] = \h33 -> Ok([tag |-> "BCDRegister", register_num |-> ri[1]])
      [] group = \hF000 /\ ri[2] = \h55 -> Ok([tag |-> "SaveRegistersToMem", max_reg_num |-> ri[1]])
      [] group = \hF000 /\ ri[2] = \h65 -> Ok([tag |-> "LoadRegistersFromMem", max_reg_num |-> ri[1]])
      [] OTHER -> Err(UnknownInstruction(opcode))

\* `.try_into()?` of execute_once: the decoder of instructions.rs, and for the
\* opcodes it rejects the later variants; an error is always the decoder's own
try_into(opcode) ==
    LET decoded == try_from(opcode)
        later == try_from_later_variants(opcode)
    IN IF IsErr(decoded) /\ IsOk(later) THEN later ELSE decoded

(***************************************************************************)
(* memory.rs                                                               *)
(***************************************************************************)
AddressOutOfBounds(address) == [error |-> "AddressOutOfBounds", address |-> address]
AddressUnaligned(address) == [error |-> "AddressUnaligned", address |-> address]

\* Ram::default.  The array `data: [u8; 4096]` is held as the function from the
\* addresses of its nonzero bytes to those bytes: data[address] of the code is
\* byte_at(data, address), and data[address] = value is store(data, address, value)
Ram_default == [address \in {} |-> 0]

byte_at(data, address) == IF address \in DOMAIN data THEN data[address] ELSE 0

store(data, address, value) ==
    IF value = 0
    THEN [a \in DOMAIN data \ {address} |-> data[a]]
    ELSE [a \in DOMAIN data \cup {address} |-> IF a = address THEN value ELSE data[a]]

\* A copy loop that starts one byte late: data[0x200 + offset + 1] = *byte
copy_program_late(data, program, covered) ==
    [a \in (DOMAIN data \ {c + 1 : c \in covered})
            \cup {c + 1 : c \in {d \in covered : program[d - ProgramStart + 1] # 0}} |->
        IF a - 1 \in covered THEN program[a - ProgramStart] ELSE data[a]]

\* The loop of Ram::load_program: data[0x200 + offset] = *byte, every offset
copy_program(data, program, covered) ==
    [a \in (DOMAIN data \ covered)
            \cup {c \in covered : program[c - ProgramStart + 1] # 0} |->
        IF a \in covered THEN program[a - ProgramStart + 1] ELSE data[a]]

\* Ram::get
get(data, address) ==
    IF address >= RamSize
    THEN Err(AddressOutOfBounds(address))
    ELSE Ok(byte_at(data, address))

\* A get_wide without the alignment test
get_wide_any_alignment(data, address) ==
    LET high == get(data, address) IN
    IF IsErr(high) THEN high
    ELSE LET low == get(data, Address(address + 1)) IN
         IF IsErr(low) THEN low
         ELSE Ok(BitOr(high.val * 256, low.val))

\* Ram::get_wide
get_wide(data, address) ==
    IF address % 2 # 0
    THEN Err(AddressUnaligned(address))
    ELSE LET high == get(data, address) IN
         IF IsErr(high) THEN high
         ELSE LET low == get(data, Address(address + 1)) IN
              IF IsErr(low) THEN low
              ELSE Ok(BitOr(high.val * 256, low.val))

\* Ram::set is called by main.rs and is not in memory.rs: bounds-checked like get
set(data, address, value) ==
    IF address >= RamSize
    THEN Err(AddressOutOfBounds(address))
    ELSE Ok(store(data, address, value))

\* A load_program whose length test is >= : a ROM that ends at the last byte
\* of the memory is rejected
Ram_load_program_inclusive(checked, data, program) ==
    IF ProgramStart + Len(program) >= RamSize
    THEN LET end == AddU16(checked, ProgramStart, AsU16(Len(program))) IN
         IF IsPanic(end) THEN Panic ELSE Err(AddressOutOfBounds(Address(end.val)))
    ELSE Ok(copy_program(data, program,
                         ProgramStart .. ProgramStart + Len(program) - 1))

\* Ram::load_program
Ram_load_program(checked, data, program) ==
    IF ProgramStart + Len(program) > RamSize
    THEN LET end == AddU16(checked, ProgramStart, AsU16(Len(program))) IN
         IF IsPanic(end) THEN Panic ELSE Err(AddressOutOfBounds(Address(end.val)))
    ELSE Ok(copy_program(data, program,
                         ProgramStart .. ProgramStart + Len(program) - 1))

\* Chip8Display::default.  The grid `data: [[bool; 32]; 64]` is held as the set
\* of the cells <<x, y>> that are true: data[x][y] of the code is <<x, y>> \in data
Chip8Display_default == {}

\* Chip8Display::clear
clear(data) == {}

\* A flip_pixel that sets the cell: data[x][y] |= true
flip_pixel_set(data, x, y) ==
    IF x >= DisplayWidth \/ y >= DisplayHeight
    THEN Panic
    ELSE Ok(data \cup {<<x, y>>})

\* Chip8Display::flip_pixel: data[x][y] ^= true; indexing outside the array panics
flip_pixel(data, x, y) ==
    IF x >= DisplayWidth \/ y >= DisplayHeight
    THEN Panic
    ELSE Ok(IF <<x, y>> \in data THEN data \ {<<x, y>>} ELSE data \cup {<<x, y>>})

\* A byte expanded least-significant bit first
byte_to_flip_instructions_lsb_first(byte) ==
    [k \in 1 .. U8Bits |-> BitAnd(byte, 2 ^ (k - 1)) # 0]

\* byte_to_flip_instructions: the 8 bits of a byte, most significant first
byte_to_flip_instructions(byte) ==
    [k \in 1 .. U8Bits |-> BitAnd(byte, Shr(\h80, k - 1)) # 0]

\* memory_to_flip_instructions: one row of 8 flips per byte
memory_to_flip_instructions(bytes) ==
    [k \in 1 .. Len(bytes) |-> byte_to_flip_instructions(bytes[k])]

(***************************************************************************)
(* registers.rs                                                            *)
(***************************************************************************)
RegisterV_default == 0
RegisterI_default == 0
RegisterPC_default == Address(ProgramStart)

\* An add whose carry is bit 7 of the sum
RegisterV_add_carry_bit_7(data, value) ==
    LET true_result == data + value
    IN <<AsU8(BitAnd(true_result, \h00FF)), BitAnd(true_result, \h0080) # 0>>

\* An add that saturates at 255
RegisterV_add_saturating(data, value) ==
    LET true_result == data + value
    IN <<IF true_result > U8Max THEN U8Max ELSE true_result,
         BitAnd(true_result, \hFF00) # 0>>

\* RegisterV::add: <<the new value, the carry>>
RegisterV_add(data, value) ==
    LET true_result == data + value
    IN <<AsU8(BitAnd(true_result, \h00FF)), BitAnd(true_result, \hFF00) # 0>>

\* RegisterV::sub is called by main.rs and is not in registers.rs:
\* <<the difference mod 256, no borrow>>
RegisterV_sub(data, value) ==
    <<(data - value) % (U8Max + 1), data >= value>>

\* RegisterI::add is called by main.rs and is not in registers.rs
RegisterI_add(data, value) == AsU16(data + value)

\* RegisterPC::inc
RegisterPC_inc(checked, data) == AddU16(checked, data, 2)

(***************************************************************************)
(* cpu/main.rs: the Executor.  An Executor value is the record `self`; a   *)
(* method returns the Executor it leaves and what it returned to the       *)
(* caller: Ok(()), Err(error), or Panic when the thread unwound.           *)
(***************************************************************************)
MemoryAccess(error) == [error |-> "MemoryAccess", source |-> error]
InstructionDecode(error) == [error |-> "InstructionDecode", source |-> error]
StackPopFail == [error |-> "StackPopFail", source |-> Unit]

Registers_default == [r \in 0 .. NumRegisters - 1 |-> RegisterV_default]

\* Executor::new
Executor_new(shift) ==
    [memory |-> Ram_default,
     gp_registers |-> Registers_default,
     display |-> Chip8Display_default,
     i |-> RegisterI_default,
     pc |-> RegisterPC_default,
     stack |-> <<>>,
     legacy_shift |-> shift]

Returned(self, ret) == [self |-> self, ret |-> ret]

\* A load_program that resets the registers and the display before it loads
Executor_load_program_reset_first(self, checked, program) ==
    LET reset == [self EXCEPT !.pc = RegisterPC_default,
                              !.display = Chip8Display_default,
                              !.gp_registers = Registers_default,
                              !.i = RegisterI_default]
        loaded == Ram_load_program(checked, self.memory, program)
    IN IF ~IsOk(loaded) THEN Returned(reset, loaded)
       ELSE Returned([reset EXCEPT !.memory = loaded.val], Ok(Unit))

\* Executor::load_program
Executor_load_program(self, checked, program) ==
    LET loaded == Ram_load_program(checked, self.memory, program) IN
    IF ~IsOk(loaded) THEN Returned(self, loaded)
    ELSE Returned([self EXCEPT !.memory = loaded.val,
                               !.pc = RegisterPC_default,
                               !.display = Chip8Display_default,
                               !.gp_registers = Registers_default,
                               !.i = RegisterI_default],
                  Ok(Unit))

\* A set_flag_register that stores the borrow: 1 when the flag is false
set_flag_register_inverted(registers, flag) ==
    IF flag THEN [registers EXCEPT ![FlagRegister] = 0]
    ELSE [registers EXCEPT ![FlagRegister] = 1]

\* Executor::set_flag_register
set_flag_register(registers, flag) ==
    IF flag THEN [registers EXCEPT ![FlagRegister] = 1]
    ELSE [registers EXCEPT ![FlagRegister] = 0]

\* A bcd with the ones first
bcd_ones_first(data) == <<data % 10, (data % 100) \div 10, data \div 100>>

\* Executor::bcd
bcd(data) == <<data \div 100, (data % 100) \div 10, data % 10>>

\* draw_on_display, first loop: the sprite's bytes from offset `offset` on,
\* appended to `bytes`; the first failing read ends the loop
RECURSIVE read_sprite(_, _, _, _, _, _)
read_sprite(checked, data, start, offset, sprite_length, bytes) ==
    IF offset >= sprite_length THEN Ok(bytes)
    ELSE LET address == AddU16(checked, start, offset) IN
         IF IsPanic(address) THEN Panic
         ELSE LET byte == get(data, Address(address.val)) IN
              IF IsErr(byte) THEN byte
              ELSE read_sprite(checked, data, start, offset + 1, sprite_length,
                               Append(bytes, byte.val))

\* draw_on_display, second loop, from its k-th iteration on (offset_x outer,
\* offset_y inner): Ok(display) at the end, or the display at the panic
RECURSIVE flip_sprite(_, _, _, _, _, _, _)
flip_sprite(checked, data, sprite_flips, start_x, start_y, sprite_length, k) ==
    IF k >= U8Bits * sprite_length THEN Ok(data)
    ELSE LET offset_x == k \div sprite_length
             offset_y == k % sprite_length
         IN IF ~sprite_flips[offset_y + 1][offset_x + 1]
            THEN flip_sprite(checked, data, sprite_flips, start_x, start_y,
                             sprite_length, k + 1)
            ELSE LET x == AddU8(checked, start_x, offset_x)
                     y == AddU8(checked, start_y, offset_y)
                 IN IF IsPanic(x) \/ IsPanic(y) THEN [kind |-> "Panic", val |-> data]
                    ELSE LET flipped == flip_pixel(data, x.val, y.val) IN
                         IF IsPanic(flipped) THEN [kind |-> "Panic", val |-> data]
                         ELSE flip_sprite(checked, flipped.val, sprite_flips,
                                          start_x, start_y, sprite_length, k + 1)

\* Executor::draw_on_display
draw_on_display(self, checked, x_reg_num, y_reg_num, sprite_length) ==
    LET sprite_memory_start == self.i
        sprite_direct_memory ==
            read_sprite(checked, self.memory, sprite_memory_start, 0, sprite_length, <<>>)
    IN
    IF IsPanic(sprite_direct_memory) THEN Returned(self, Panic)
    ELSE IF IsErr(sprite_direct_memory) THEN Returned(self, sprite_direct_memory)
    ELSE LET sprite_flips == memory_to_flip_instructions(sprite_direct_memory.val)
             start_x == self.gp_registers[x_reg_num]
             start_y == self.gp_registers[y_reg_num]
             drawn == flip_sprite(checked, self.display, sprite_flips,
                                  start_x, start_y, sprite_length, 0)
         IN Returned([self EXCEPT !.display = drawn.val],
                     IF IsPanic(drawn) THEN Panic ELSE Ok(Unit))

\* LoadRegistersFromMem's loop from `offset` on
RECURSIVE load_registers(_, _, _, _, _)
load_registers(self, checked, start_mem, offset, max_reg_num) ==
    IF offset > max_reg_num THEN Returned(self, Ok(Unit))
    ELSE LET address == AddU16(checked, start_mem, offset) IN
         IF IsPanic(address) THEN Returned(self, Panic)
         ELSE LET byte == get(self.memory, Address(address.val)) IN
              IF IsErr(byte) THEN Returned(self, Err(MemoryAccess(byte.val)))
              ELSE load_registers([self EXCEPT !.gp_registers[offset] = byte.val],
                                  checked, start_mem, offset + 1, max_reg_num)

\* A SaveRegistersToMem loop over 0..max_reg_num, the last register left out
RECURSIVE save_registers_exclusive(_, _, _, _, _)
save_registers_exclusive(self, checked, start_mem, offset, max_reg_num) ==
    IF offset >= max_reg_num THEN Returned(self, Ok(Unit))
    ELSE LET address == AddU16(checked, start_mem, offset) IN
         IF IsPanic(address) THEN Returned(self, Panic)
         ELSE LET written == set(self.memory, Address(address.val),
                                 self.gp_registers[offset]) IN
              IF IsErr(written) THEN Returned(self, Err(MemoryAccess(written.val)))
              ELSE save_registers_exclusive([self EXCEPT !.memory = written.val],
                                            checked, start_mem, offset + 1, max_reg_num)

\* SaveRegistersToMem's loop from `offset` on
RECURSIVE save_registers(_, _, _, _, _)
save_registers(self, checked, start_mem, offset, max_reg_num) ==
    IF offset > max_reg_num THEN Returned(self, Ok(Unit))
    ELSE LET address == AddU16(checked, start_mem, offset) IN
         IF IsPanic(address) THEN Returned(self, Panic)
         ELSE LET written == set(self.memory, Address(address.val),
                                 self.gp_registers[offset]) IN
              IF IsErr(written) THEN Returned(self, Err(MemoryAccess(written.val)))
              ELSE save_registers([self EXCEPT !.memory = written.val],
                                  checked, start_mem, offset + 1, max_reg_num)

\* BCDRegister's stores from the k-th digit on
RECURSIVE store_digits(_, _, _, _, _)
store_digits(self, checked, root_address, digits, k) ==
    IF k > Len(digits) THEN Returned(self, Ok(Unit))
    ELSE LET address == AddU16(checked, root_address, k - 1) IN
         IF IsPanic(address) THEN Returned(self, Panic)
         ELSE LET written == set(self.memory, Address(address.val), digits[k]) IN
              IF IsErr(written) THEN Returned(self, Err(MemoryAccess(written.val)))
              ELSE store_digits([self EXCEPT !.memory = written.val],
                                checked, root_address, digits, k + 1)

\* The stack's push and pop (Vec::push, Vec::pop)
push(vec, value) == Append(vec, value)

\* A pop that takes the oldest address (a queue)
pop_oldest(vec) ==
    IF Len(vec) = 0 THEN <<vec, Err(Unit)>>
    ELSE <<SubSeq(vec, 2, Len(vec)), Ok(vec[1])>>

\* A pop that yields the reset address when the stack is empty
pop_or_reset(vec) ==
    IF Len(vec) = 0 THEN <<vec, Ok(RegisterPC_default)>>
    ELSE <<SubSeq(vec, 1, Len(vec) - 1), Ok(vec[Len(vec)])>>

pop(vec) ==
    IF Len(vec) = 0 THEN <<vec, Err(Unit)>>
    ELSE <<SubSeq(vec, 1, Len(vec) - 1), Ok(vec[Len(vec)])>>

\* A skip that skips when the condition does not hold
skip_inverted(self, checked, taken) ==
    IF taken THEN Returned(self, Ok(Unit))
    ELSE LET next == RegisterPC_inc(checked, self.pc) IN
         IF IsPanic(next) THEN Returned(self, Panic)
         ELSE Returned([self EXCEPT !.pc = next.val], Ok(Unit))

\* One more RegisterPC::inc, of the skip instructions
skip(self, checked, taken) ==
    IF ~taken THEN Returned(self, Ok(Unit))
    ELSE LET next == RegisterPC_inc(checked, self.pc) IN
         IF IsPanic(next) THEN Returned(self, Panic)
         ELSE Returned([self EXCEPT !.pc = next.val], Ok(Unit))

\* A source register chosen the other way round
used_register_swapped(self, x_reg_num, y_reg_num) ==
    IF self.legacy_shift THEN self.gp_registers[x_reg_num]
    ELSE self.gp_registers[y_reg_num]

\* The source register of the two shift instructions
used_register(self, x_reg_num, y_reg_num) ==
    IF self.legacy_shift THEN self.gp_registers[y_reg_num]
    ELSE self.gp_registers[x_reg_num]

\* execute_once's `match instruction`
dispatch(self, checked, instruction) ==
    LET V == self.gp_registers
        tag == instruction.tag
    IN
    CASE tag = "ClearScreen" ->
           Returned([self EXCEPT !.display = clear(self.display)], Ok(Unit))
      [] tag = "Return" ->
           LET popped == pop(self.stack) IN
           IF IsErr(popped[2])
           THEN Returned([self EXCEPT !.stack = popped[1]], Err(StackPopFail))
           ELSE Returned([self EXCEPT !.stack = popped[1], !.pc = popped[2].val], Ok(Unit))
      [] tag = "Call" ->
           Returned([self EXCEPT !.stack = push(self.stack, self.pc),
                                 !.pc = instruction.address],
                    Ok(Unit))
      [] tag = "LoadVImm" ->
           Returned([self EXCEPT !.gp_registers[instruction.reg_num] = instruction.imm],
                    Ok(Unit))
      [] tag = "AddVImm" ->
           Returned([self EXCEPT !.gp_registers[instruction.reg_num] =
                                    RegisterV_add(V[instruction.reg_num], instruction.imm)[1]],
                    Ok(Unit))
      [] tag = "SkipIfEqVImm" ->
           skip(self, checked, V[instruction.reg_num] = instruction.imm)
      [] tag = "SkipIfNotEqVImm" ->
           skip(self, checked, V[instruction.reg_num] # instruction.imm)
      [] tag = "SkipIfEqualV2" ->
           skip(self, checked, V[instruction.x_reg_num] = V[instruction.y_reg_num])
      [] tag = "SkipIfNotEqualV2" ->
           skip(self, checked, V[instruction.x_reg_num] # V[instruction.y_reg_num])
      [] tag = "LoadIImm" ->
           Returned([self EXCEPT !.i = instruction.imm], Ok(Unit))
      [] tag = "Draw" ->
           LET drawn == draw_on_display(self, checked, instruction.x_reg_num,
                                        instruction.y_reg_num, instruction.sprite_length)
           IN IF IsErr(drawn.ret)
              THEN Returned(drawn.self, Err(MemoryAccess(drawn.ret.val)))
              ELSE drawn
      [] tag = "JumpTo" ->
           Returned([self EXCEPT !.pc = instruction.address], Ok(Unit))
      [] tag = "SetEqual" ->
           Returned([self EXCEPT !.gp_registers[instruction.x_reg_num] =
                                    V[instruction.y_reg_num]],
                    Ok(Unit))
      [] tag = "BitWiseOrEqual" ->
           Returned([self EXCEPT !.gp_registers[instruction.x_reg_num] =
                                    BitOr(V[instruction.x_reg_num], V[instruction.y_reg_num])],
                    Ok(Unit))
      [] tag = "BitWiseAndEqual" ->
           Returned([self EXCEPT !.gp_registers[instruction.x_reg_num] =
                                    BitAnd(V[instruction.x_reg_num], V[instruction.y_reg_num])],
                    Ok(Unit))
      [] tag = "BitWiseXorEqual" ->
           Returned([self EXCEPT !.gp_registers[instruction.x_reg_num] =
                                    BitXor(V[instruction.x_reg_num], V[instruction.y_reg_num])],
                    Ok(Unit))
      [] tag = "AddV2" ->
           LET added == RegisterV_add(V[instruction.x_reg_num], V[instruction.y_reg_num])
               registers == [V EXCEPT ![instruction.x_reg_num] = added[1]]
           IN Returned([self EXCEPT !.gp_registers = set_flag_register(registers, added[2])],
                       Ok(Unit))
      [] tag = "SubV2" ->
           LET subtracted == RegisterV_sub(V[instruction.x_reg_num], V[instruction.y_reg_num])
               registers == [V EXCEPT ![instruction.x_reg_num] = subtracted[1]]
           IN Returned([self EXCEPT !.gp_registers =
                                       set_flag_register(registers, subtracted[2])],
                       Ok(Unit))
      [] tag = "SubNV2" ->
           LET flagged == set_flag_register(V, V[instruction.y_reg_num] > V[instruction.x_reg_num])
               difference == (flagged[instruction.y_reg_num] - flagged[instruction.x_reg_num])
                                % (U8Max + 1)
           IN Returned([self EXCEPT !.gp_registers =
                                       [flagged EXCEPT ![instruction.x_reg_num] = difference]],
                       Ok(Unit))
      [] tag = "ShiftRight" ->
           LET used == used_register(self, instruction.x_reg_num, instruction.y_reg_num)
               registers == [V EXCEPT ![instruction.x_reg_num] = Shr(used, 1)]
           IN Returned([self EXCEPT !.gp_registers =
                                       set_flag_register(registers, BitAnd(used, \h1) # 0)],
                       Ok(Unit))
      [] tag = "ShiftLeft" ->
           LET used == used_register(self, instruction.x_reg_num, instruction.y_reg_num)
               registers == [V EXCEPT ![instruction.x_reg_num] = AsU8(used * 2)]
           IN Returned([self EXCEPT !.gp_registers =
                                       set_flag_register(registers, BitAnd(used, \h80) # 0)],
                       Ok(Unit))
      [] tag = "LoadRegistersFromMem" ->
           load_registers(self, checked, self.i, 0, instruction.max_reg_num)
      [] tag = "SaveRegistersToMem" ->
           save_registers(self, checked, self.i, 0, instruction.max_reg_num)
      [] tag = "BCDRegister" ->
           store_digits(self, checked, self.i, bcd(V[instruction.register_num]), 1)
      [] tag = "AddIV" ->
           Returned([self EXCEPT !.i = RegisterI_add(self.i, V[instruction.register_num])],
                    Ok(Unit))
      [] tag = "Sys" -> Returned(self, Ok(Unit))

\* An execute_once that puts PC back when the word does not decode
Executor_execute_once_rolled_back(self, checked) ==
    LET pc_fetch == self.pc
        advanced == RegisterPC_inc(checked, self.pc)
    IN
    IF IsPanic(advanced) THEN Returned(self, Panic)
    ELSE LET fetching == [self EXCEPT !.pc = advanced.val]
             word == get_wide(fetching.memory, pc_fetch)
         IN
         IF IsErr(word) THEN Returned(fetching, Err(MemoryAccess(word.val)))
         ELSE LET instruction == try_into(word.val) IN
              IF IsErr(instruction)
              THEN Returned(self, Err(InstructionDecode(instruction.val)))
              ELSE dispatch(fetching, checked, instruction.val)

\* Executor::execute_once
Executor_execute_once(self, checked) ==
    LET pc_fetch == self.pc
        advanced == RegisterPC_inc(checked, self.pc)
    IN
    IF IsPanic(advanced) THEN Returned(self, Panic)
    ELSE LET fetching == [self EXCEPT !.pc = advanced.val]
             word == get_wide(fetching.memory, pc_fetch)
         IN
         IF IsErr(word) THEN Returned(fetching, Err(MemoryAccess(word.val)))
         ELSE LET instruction == try_into(word.val) IN
              IF IsErr(instruction)
              THEN Returned(fetching, Err(InstructionDecode(instruction.val)))
              ELSE dispatch(fetching, checked, instruction.val)

(***************************************************************************)
(* The ROM images the host loads (bin/chip8_run.rs reads them from a file) *)
(***************************************************************************)
\* The bytes of a sequence of big-endian 16-bit words
rom(words) ==
    [k \in 1 .. 2 * Len(words) |->
        IF k % 2 = 1 THEN words[(k + 1) \div 2] \div 256 ELSE words[k \div 2] % 256]

\* `length` bytes: `bytes`, then zeros, with `tail` as the last bytes
padded(bytes, length, tail) ==
    bytes \o [k \in 1 .. length - Len(bytes) - Len(tail) |-> 0] \o tail

\* 0x200 Call 0x206; 0x202 Return; 0x204 Sys; 0x206 Call 0x20A; 0x208 Return; 0x20A Return
CallProgram == rom(<<\h2206, \h00EE, \h0000, \h220A, \h00EE, \h00EE>>)

\* Three words no instruction decodes from, a sprite read past the end of the
\* memory, a jump to an odd address
FaultProgram == rom(<<\hB123, \h5121, \h8AB8, \hAFFF, \hD012, \h1301>>)

\* V0 := 10; V1 := 0; I := 0x300; two draws of the sprite at 0x300 (0xA0, 0x20);
\* V0 := 254; I := 0x301; a draw whose column 2 is at x = 256; V0 := 62; a draw
\* whose column 2 is at x = 64
DrawProgram ==
    padded(rom(<<\h600A, \h6100, \hA300, \hD011, \hD012,
                 \h60FE, \hA301, \hD011, \h603E, \hD011>>),
           \h102, <<\hA0, \h20>>)

\* A ROM that fills the memory to its last byte: 0x200 JumpTo 0xFFE;
\* 0x202 Return; 0xFFE Call 0x202
FullProgram == padded(rom(<<\h1FFE, \h00EE>>), RamSize - ProgramStart, rom(<<\h2202>>))

\* One byte more than fits
TooLongProgram == padded(<<>>, RamSize - ProgramStart + 1, <<>>)

EmptyProgram == <<>>

\* 0x200 Return
ReturnProgram == rom(<<\h00EE>>)

\* The ROM files, by name
Programs ==
    [name \in {"call", "fault", "draw", "full", "too_long", "empty", "return"} |->
        CASE name = "call" -> CallProgram
          [] name = "fault" -> FaultProgram
          [] name = "draw" -> DrawProgram
          [] name = "full" -> FullProgram
          [] name = "too_long" -> TooLongProgram
          [] name = "empty" -> EmptyProgram
          [] name = "return" -> ReturnProgram]

(***************************************************************************)
(* The state machine: the host constructs an Executor, loads ROMs and      *)
(* calls execute_once; a panic ends the process.                           *)
(***************************************************************************)
Self ==
    [memory |-> memory, gp_registers |-> gp_registers, display |-> display,
     i |-> i, pc |-> pc, stack |-> stack, legacy_shift |-> legacy_shift]

Called(call, arg, ret) == [call |-> call, arg |-> arg, ret |-> ret]

Becomes(self) ==
    /\ memory' = self.memory
    /\ gp_registers' = self.gp_registers
    /\ display' = self.display
    /\ i' = self.i
    /\ pc' = self.pc
    /\ stack' = self.stack
    /\ legacy_shift' = self.legacy_shift

Running == ~IsPanic(result.ret)

Init ==
    /\ legacy_shift \in BOOLEAN
    /\ overflow_checks \in BOOLEAN
    /\ memory = Executor_new(legacy_shift).memory
    /\ gp_registers = Executor_new(legacy_shift).gp_registers
    /\ display = Executor_new(legacy_shift).display
    /\ i = Executor_new(legacy_shift).i
    /\ pc = Executor_new(legacy_shift).pc
    /\ stack = Executor_new(legacy_shift).stack
    /\ result = Called("new", Unit, Ok(Unit))
    /\ cycles = 0
    /\ loads = 0

\* The Executor and the result a call leaves
Returns(call, arg, out) ==
    /\ Becomes(out.self)
    /\ result' = Called(call, arg, out.ret)
    /\ cycles' = IF call = "load_program" /\ IsOk(out.ret) THEN 0
                 ELSE IF call = "execute_once" THEN cycles + 1
                 ELSE cycles

\* executor.load_program(&program)
load_program ==
    /\ Running
    /\ result.call \in {"new", "load_program", "execute_once"}
    /\ loads < MaxLoads
    /\ \E name \in DOMAIN Programs :
         Returns("load_program", name,
                 Executor_load_program(Self, overflow_checks, Programs[name]))
    /\ loads' = loads + 1
    /\ UNCHANGED overflow_checks

\* executor.execute_once(), as the host loop of bin/chip8_run.rs calls it
execute_once ==
    /\ Running
    /\ cycles < MaxCycles
    /\ Returns("execute_once", Unit, Executor_execute_once(Self, overflow_checks))
    /\ Len(stack') <= MaxStack
    /\ UNCHANGED <<overflow_checks, loads>>

Next == load_program \/ execute_once

Spec == Init /\ [][Next]_vars

(***************************************************************************)
(* The decoder on its own: Instruction::try_from(opcode) for every u16.    *)
(***************************************************************************)
Opcodes == 0 .. U16Max

\* Instruction::try_from(opcode)
decode_opcode ==
    /\ result.call = "new"
    /\ \E opcode \in Opcodes : result' = Called("try_from", opcode, try_from(opcode))
    /\ UNCHANGED <<memory, gp_registers, display, i, pc, stack, legacy_shift,
                   overflow_checks, cycles, loads>>

NextDecode == decode_opcode

SpecDecode == Init /\ [][NextDecode]_vars

(***************************************************************************)
(* The Ram on its own: get and get_wide at the addresses of Addresses, on  *)
(* the memories that loading the ROMs leaves.                              *)
(***************************************************************************)
AddressWindow == 3

Near(address) ==
    {a \in address - AddressWindow .. address + AddressWindow : a >= 0 /\ a <= U16Max}

Addresses ==
    Near(0) \cup Near(ProgramStart) \cup Near(\h300) \cup Near(RamSize) \cup Near(U16Max)

\* ram.get(Address(address)); a read leaves the Ram as it is, so the reads
\* that follow a read are those of the state before it
ram_get ==
    /\ result.call \in {"new", "load_program"}
    /\ \E address \in Addresses : result' = Called("get", address, get(memory, address))
    /\ UNCHANGED <<memory, gp_registers, display, i, pc, stack, legacy_shift,
                   overflow_checks, cycles, loads>>

\* ram.get_wide(Address(address))
ram_get_wide ==
    /\ result.call \in {"new", "load_program"}
    /\ \E address \in Addresses :
         result' = Called("get_wide", address, get_wide(memory, address))
    /\ UNCHANGED <<memory, gp_registers, display, i, pc, stack, legacy_shift,
                   overflow_checks, cycles, loads>>

NextRam == load_program \/ ram_get \/ ram_get_wide

SpecRam == Init /\ [][NextRam]_vars

(***************************************************************************)
(* The Chip8Display on its own: flip_pixel at the coordinates of           *)
(* Columns \X Rows (inside the grid, on its edges, just outside it and at  *)
(* the largest u8) and clear, from every display these calls produce.      *)
(***************************************************************************)
Columns == {0, 10, DisplayWidth - 1, DisplayWidth, U8Max}
Rows == {0, DisplayHeight - 1, DisplayHeight, U8Max}

\* display.flip_pixel(x, y); the panic of an index outside the array unwinds
\* before the cell is written
display_flip_pixel ==
    /\ Running
    /\ \E x \in Columns, y \in Rows :
         LET flipped == flip_pixel(display, x, y) IN
         /\ display' = IF IsPanic(flipped) THEN display ELSE flipped.val
         /\ result' = Called("flip_pixel", <<x, y>>,
                             IF IsPanic(flipped) THEN Panic ELSE Ok(Unit))
    /\ UNCHANGED <<memory, gp_registers, i, pc, stack, legacy_shift,
                   overflow_checks, cycles, loads>>

\* display.clear()
display_clear ==
    /\ Running
    /\ display' = clear(display)
    /\ result' = Called("clear", Unit, Ok(Unit))
    /\ UNCHANGED <<memory, gp_registers, i, pc, stack, legacy_shift,
                   overflow_checks, cycles, loads>>

NextDisplay == display_flip_pixel \/ display_clear

SpecDisplay == Init /\ [][NextDisplay]_vars

(***************************************************************************)
(* The register instructions: the host loads one of the four-word ROMs     *)
(*     VF := 9;  V[x] := a;  V[y] := b;  one instruction on x, y (or on    *)
(*     x and the immediate b)                                              *)
(* and runs it.  VF starts at 9 so that a write of the flag is seen.       *)
(***************************************************************************)
RegisterSamples == {0, 1, 14, FlagRegister}
ValueSamples == {0, 1, 3, 5, 10, 127, 128, 250, 254, U8Max}

\* AddV2, SubV2, ShiftRight, SubNV2, ShiftLeft, SkipIfEqualV2, SkipIfNotEqualV2
RegisterWords == {\h8004, \h8005, \h8006, \h8007, \h800E, \h5000, \h9000}
\* AddVImm, SkipIfEqVImm, SkipIfNotEqVImm
ImmediateWords == {\h7000, \h3000, \h4000}

RegisterProgram(word, x, y, a, b) ==
    rom(<<\h6F09,
          \h6000 + x * \h100 + a,
          \h6000 + y * \h100 + b,
          IF word \in ImmediateWords
          THEN word + x * \h100 + b
          ELSE word + x * \h100 + y * \h10>>)

\* executor.load_program(&program), the ROM one of the register ROMs
load_register_program ==
    /\ Running
    /\ result.call = "new"
    /\ \E word \in RegisterWords \cup ImmediateWords,
          x \in RegisterSamples, y \in RegisterSamples,
          a \in ValueSamples, b \in ValueSamples :
         Returns("load_program", <<word, x, y, a, b>>,
                 Executor_load_program(Self, overflow_checks,
                                       RegisterProgram(word, x, y, a, b)))
    /\ loads' = loads + 1
    /\ UNCHANGED overflow_checks

NextRegisters == load_register_program \/ execute_once

SpecRegisters == Init /\ [][NextRegisters]_vars

(***************************************************************************)
(* The instructions that write the memory: the host loads one of the ROMs  *)
(*     V0 := a; V1 := a + 1; VF := 9; I := address; SaveRegistersToMem(n); *)
(*     V0 := 0xEE; V1 := 0xEE; VF := 0xEE; LoadRegistersFromMem(n)         *)
(* or                                                                      *)
(*     V[r] := v; I := address; BCDRegister(r)                             *)
(* and runs it.  The addresses are a free one, one inside the ROM itself,  *)
(* and the last ones of the memory.                                        *)
(***************************************************************************)
TransferCounts == {0, 1, 2, FlagRegister}
TransferAddresses == {\h20E, \h300, \hFF0, \hFFD, \hFFE, \hFFF}

SaveLoadProgram(n, a, address) ==
    rom(<<\h6000 + a,
          \h6100 + ((a + 1) % (U8Max + 1)),
          \h6F09,
          \hA000 + address,
          \hF055 + n * \h100,
          \h60EE,
          \h61EE,
          \h6FEE,
          \hF065 + n * \h100>>)

BcdProgram(r, v, address) ==
    rom(<<\h6000 + r * \h100 + v,
          \hA000 + address,
          \hF033 + r * \h100>>)

\* executor.load_program(&program), the ROM one of the memory ROMs
load_memory_program ==
    /\ Running
    /\ result.call = "new"
    /\ \/ \E n \in TransferCounts, a \in ValueSamples, address \in TransferAddresses :
            Returns("load_program", <<"save_load", n, a, address>>,
                    Executor_load_program(Self, overflow_checks,
                                          SaveLoadProgram(n, a, address)))
       \/ \E r \in RegisterSamples, v \in 0 .. U8Max, address \in TransferAddresses :
            Returns("load_program", <<"bcd", r, v, address>>,
                    Executor_load_program(Self, overflow_checks,
                                          BcdProgram(r, v, address)))
    /\ loads' = loads + 1
    /\ UNCHANGED overflow_checks

NextMemory == load_memory_program \/ execute_once

SpecMemory == Init /\ [][NextMemory]_vars

TypeOK ==
    /\ DOMAIN memory \subseteq 0 .. RamSize - 1
    /\ \A address \in DOMAIN memory : memory[address] \in 1 .. U8Max
    /\ gp_registers \in [0 .. NumRegisters - 1 -> 0 .. U8Max]
    /\ i \in 0 .. U16Max
    /\ pc \in 0 .. U16Max
    /\ \A k \in 1 .. Len(stack) : stack[k] \in 0 .. U16Max
    /\ display \subseteq (0 .. DisplayWidth - 1) \X (0 .. DisplayHeight - 1)

(***************************************************************************)
(* What the properties below read off a state                              *)
(***************************************************************************)
\* The nibbles of an opcode, by arithmetic
HighNibble(opcode) == opcode \div 4096
XNibble(opcode) == (opcode \div 256) % 16
YNibble(opcode) == (opcode \div 16) % 16
LowNibble(opcode) == opcode % 16
LowByte(opcode) == opcode % 256

\* The byte of the memory at an address, the cell of the display at <<x, y>>
Byte(address) == IF address \in DOMAIN memory THEN memory[address] ELSE 0
Cell(x, y) == <<x, y>> \in display

\* The state is one a fetch at pc succeeds in, and the word it fetches
Fetchable == pc % 2 = 0 /\ pc + 1 < RamSize
FetchedWord == Byte(pc) * 256 + Byte(pc + 1)

\* The step is a call of execute_once / of load_program
ExecuteStep == result'.call = "execute_once"
LoadStep == result'.call = "load_program"

\* The tags of the Instruction enum of the specification's table
InstructionTags ==
    {"ClearScreen", "Return", "Call", "JumpTo", "Sys", "LoadVImm", "AddVImm",
     "SkipIfEqVImm", "SkipIfNotEqVImm", "SkipIfEqualV2", "SkipIfNotEqualV2",
     "SetEqual", "BitWiseOrEqual", "BitWiseAndEqual", "BitWiseXorEqual",
     "AddV2", "SubV2", "SubNV2", "ShiftRight", "ShiftLeft", "LoadIImm", "AddIV",
     "LoadRegistersFromMem", "SaveRegistersToMem", "BCDRegister", "Draw"}

\* The opcode's high/low nibble combination matches no opcode family
NoFamily(opcode) ==
    \/ HighNibble(opcode) \in {11, 12, 14}
    \/ HighNibble(opcode) \in {5, 9} /\ LowNibble(opcode) # 0
    \/ HighNibble(opcode) = 8 /\ LowNibble(opcode) \in {8, 9, 10, 11, 12, 13, 15}
    \/ HighNibble(opcode) = 15 /\ LowByte(opcode) \notin {30, 51, 85, 101}

(***************************************************************************)
(* C1.  Decoding is total and single-valued: every opcode decodes to one   *)
(* Instruction or to UnknownInstruction(v) with v the opcode itself, and   *)
(* an opcode whose nibbles match no opcode family decodes to               *)
(* UnknownInstruction.                                                     *)
(***************************************************************************)
C1_DecodeTotal ==
    result.call = "try_from" =>
        /\ \/ IsOk(result.ret) /\ result.ret.val.tag \in InstructionTags
           \/ result.ret = Err([error |-> "UnknownInstruction", opcode |-> result.arg])
        /\ NoFamily(result.arg) => IsErr(result.ret)

C1_Witness ==
    /\ result.call = "try_from"
    /\ result.arg = \h5AB1
    /\ result.ret = Err([error |-> "UnknownInstruction", opcode |-> \h5AB1])

(***************************************************************************)
(* C2.  Call pushes the post-fetch PC (the Call's address + 2) and jumps;  *)
(* Return pops the most recently pushed address into PC; no other          *)
(* instruction touches the stack.  So Calls and Returns nest in LIFO       *)
(* order and the depth is the number of Calls minus that of Returns.       *)
(***************************************************************************)
C2_CallReturnStep ==
    (ExecuteStep /\ Fetchable) =>
        CASE HighNibble(FetchedWord) = 2 ->
               /\ IsOk(result'.ret)
               /\ stack' = Append(stack, pc + 2)
               /\ pc' = FetchedWord % 4096
          [] FetchedWord = 238 /\ stack # <<>> ->
               /\ IsOk(result'.ret)
               /\ pc' = stack[Len(stack)]
               /\ stack' = SubSeq(stack, 1, Len(stack) - 1)
               /\ Len(stack') = Len(stack) - 1
          [] OTHER -> stack' = stack

C2_CallReturn == [][C2_CallReturnStep]_vars

\* CallProgram after Call, Call, Return: back in the outer subroutine, right
\* after the inner Call, with the outer return address still on the stack
C2_Witness ==
    /\ result.call = "execute_once"
    /\ IsOk(result.ret)
    /\ cycles = 3
    /\ pc = \h208
    /\ stack = <<\h202>>

(***************************************************************************)
(* C3.  Return on an empty stack fails with StackPopFail; the stack stays  *)
(* empty, V0..VF, I, the memory and the display are unchanged, PC has      *)
(* advanced by 2.                                                          *)
(***************************************************************************)
C3_ReturnEmptyStep ==
    (ExecuteStep /\ Fetchable /\ FetchedWord = 238 /\ stack = <<>>) =>
        /\ result'.ret = Err([error |-> "StackPopFail", source |-> Unit])
        /\ stack' = <<>>
        /\ pc' = pc + 2
        /\ UNCHANGED <<gp_registers, i, memory, display>>

C3_ReturnEmpty == [][C3_ReturnEmptyStep]_vars

C3_Witness ==
    /\ result.call = "execute_once"
    /\ result.ret = Err([error |-> "StackPopFail", source |-> Unit])
    /\ stack = <<>>
    /\ pc = \h204

(***************************************************************************)
(* C4.  When decoding the fetched word fails, execute_once returns         *)
(* InstructionDecode(UnknownInstruction(opcode)) for the word fetched,     *)
(* with PC = the PC before the call + 2 and V0..VF, I, the memory, the     *)
(* display and the stack unchanged.                                        *)
(***************************************************************************)
DecodeFailed(ret) == IsErr(ret) /\ ret.val.error = "InstructionDecode"

C4_DecodeFailureStep ==
    (ExecuteStep /\ (DecodeFailed(result'.ret) \/ (Fetchable /\ NoFamily(FetchedWord)))) =>
        /\ Fetchable
        /\ result'.ret =
              Err([error |-> "InstructionDecode",
                   source |-> [error |-> "UnknownInstruction", opcode |-> FetchedWord]])
        /\ pc' = pc + 2
        /\ UNCHANGED <<gp_registers, i, memory, display, stack>>

C4_DecodeFailure == [][C4_DecodeFailureStep]_vars

C4_Witness ==
    /\ result.call = "execute_once"
    /\ result.ret =
          Err([error |-> "InstructionDecode",
               source |-> [error |-> "UnknownInstruction", opcode |-> \hB123]])
    /\ pc = \h202

(***************************************************************************)
(* C5.  execute_once fetches before it advances PC: when the fetch fails   *)
(* (PC odd: AddressUnaligned; PC >= 4096: AddressOutOfBounds) the call     *)
(* returns that MemoryAccess error and PC and the rest of the Executor     *)
(* are unchanged.                                                          *)
(***************************************************************************)
FetchError ==
    IF pc % 2 # 0
    THEN [error |-> "AddressUnaligned", address |-> pc]
    ELSE [error |-> "AddressOutOfBounds", address |-> pc]

C5_FetchFailureStep ==
    (ExecuteStep /\ ~Fetchable) =>
        /\ result'.ret = Err([error |-> "MemoryAccess", source |-> FetchError])
        /\ pc' = pc
        /\ UNCHANGED <<gp_registers, i, memory, display, stack>>

C5_FetchFailureKeepsPC == [][C5_FetchFailureStep]_vars

(***************************************************************************)
(* C6.  After every successful load_program(p): PC = 0x200, V0..VF = 0,    *)
(* I = 0, every display cell false, Memory[0x200 + k] = p[k] for           *)
(* k < len(p) and every other byte of the memory 0.                        *)
(***************************************************************************)
Loaded == result.call = "load_program" /\ IsOk(result.ret)

ProgramByteOrZero(program, address) ==
    IF address >= ProgramStart /\ address - ProgramStart < Len(program)
    THEN program[address - ProgramStart + 1]
    ELSE 0

C6_LoadResetsEverything ==
    Loaded =>
        /\ pc = ProgramStart
        /\ \A r \in 0 .. NumRegisters - 1 : gp_registers[r] = 0
        /\ i = 0
        /\ \A x \in 0 .. DisplayWidth - 1 : \A y \in 0 .. DisplayHeight - 1 : ~Cell(x, y)
        /\ \A address \in 0 .. RamSize - 1 :
              Byte(address) = ProgramByteOrZero(Programs[result.arg], address)

(***************************************************************************)
(* C7.  After load_program(p) succeeds, get at 0x200 + k returns p[k] for  *)
(* every k in 0 .. len(p) - 1.                                             *)
(***************************************************************************)
C7_LoadedRegionIsProgram ==
    Loaded =>
        \A k \in 0 .. Len(Programs[result.arg]) - 1 :
            get(memory, ProgramStart + k) = Ok(Programs[result.arg][k + 1])

C7_Witness ==
    /\ Loaded
    /\ result.arg = "draw"
    /\ loads = 2
    /\ get(memory, \h301) = Ok(\h20)

C9_ReadsChecked ==
    LET a == result.arg IN
    /\ result.call = "get" =>
          IF a <= 4095
          THEN result.ret = Ok(Byte(a))
          ELSE result.ret = Err([error |-> "AddressOutOfBounds", address |-> a])
    /\ result.call = "get_wide" =>
          IF a % 2 = 1
          THEN result.ret = Err([error |-> "AddressUnaligned", address |-> a])
          ELSE IF a >= 4096
          THEN IsErr(result.ret) /\ result.ret.val.error = "AddressOutOfBounds"
          ELSE result.ret = Ok(Byte(a) * 256 + Byte(a + 1))

\* The first word of DrawProgram, 0x600A, read back as one big-endian word
C9_Witness ==
    /\ result.call = "get_wide"
    /\ result.arg = ProgramStart
    /\ result.ret = Ok(\h600A)
    /\ Byte(ProgramStart) = \h60
    /\ Byte(ProgramStart + 1) = \h0A

(***************************************************************************)
(* C10.  Draw(x, y, len), its sprite readable and its target cells inside  *)
(* the grid, flips exactly the display cells (V[x] + c, V[y] + r) for      *)
(* which bit 7 - c of Memory[I + r] is set, r in 0 .. len - 1 and c in     *)
(* 0 .. 7, and changes no other cell, no register, not I, not the memory   *)
(* and not the stack.                                                      *)
(***************************************************************************)
SpriteBit(r, c) == (Byte(i + r) \div (2 ^ (7 - c))) % 2 = 1

DrawTargets(word) ==
    {<<gp_registers[XNibble(word)] + c, gp_registers[YNibble(word)] + r>> :
        <<r, c>> \in {rc \in (0 .. LowNibble(word) - 1) \X (0 .. 7) : SpriteBit(rc[1], rc[2])}}

InGrid(cell) == cell[1] < DisplayWidth /\ cell[2] < DisplayHeight

Drawable ==
    /\ Fetchable
    /\ HighNibble(FetchedWord) = 13
    /\ i + LowNibble(FetchedWord) <= RamSize
    /\ \A cell \in DrawTargets(FetchedWord) : InGrid(cell)

C10_DrawStep ==
    (ExecuteStep /\ Drawable) =>
        /\ IsOk(result'.ret)
        /\ \A x \in 0 .. DisplayWidth - 1 : \A y \in 0 .. DisplayHeight - 1 :
              (<<x, y>> \in display') = (Cell(x, y) # (<<x, y>> \in DrawTargets(FetchedWord)))
        /\ pc' = pc + 2
        /\ UNCHANGED <<gp_registers, i, memory, stack>>

C10_DrawFlipsSprite == [][C10_DrawStep]_vars

\* V0 = 10, V1 = 0, I = 0x300, Memory[0x300] = 0b10100000, after Draw(V0, V1, 1)
\* on a clear display
C10_Witness ==
    /\ result.call = "execute_once"
    /\ IsOk(result.ret)
    /\ pc = \h208
    /\ gp_registers[0] = 10 /\ gp_registers[1] = 0 /\ i = \h300
    /\ Byte(\h300) = 160
    /\ \A x \in 0 .. DisplayWidth - 1 : \A y \in 0 .. DisplayHeight - 1 :
          Cell(x, y) <=> <<x, y>> \in {<<10, 0>>, <<12, 0>>}

(***************************************************************************)
(* C11.  Pixel coordinates are never wrapped: a Draw with a target         *)
(* coordinate V[x] + c or V[y] + r outside the 64x32 grid, the sums over   *)
(* 255 included, ends in the out-of-bounds failure, and it flips no cell   *)
(* other than its targets inside the grid.                                 *)
(***************************************************************************)
DrawLeavesGrid ==
    /\ Fetchable
    /\ HighNibble(FetchedWord) = 13
    /\ i + LowNibble(FetchedWord) <= RamSize
    /\ \E cell \in DrawTargets(FetchedWord) : ~InGrid(cell)

C11_DrawOutsideStep ==
    (ExecuteStep /\ DrawLeavesGrid) =>
        /\ IsPanic(result'.ret)
        /\ \A x \in 0 .. DisplayWidth - 1 : \A y \in 0 .. DisplayHeight - 1 :
              (<<x, y>> \in display') # Cell(x, y) => <<x, y>> \in DrawTargets(FetchedWord)

C11_NoWraparound == [][C11_DrawOutsideStep]_vars

(***************************************************************************)
(* C12.  flip_pixel(x, y) with x < 64 and y < 32 inverts the cell (x, y)   *)
(* and leaves every other cell as it was, so a second flip at the same     *)
(* coordinate restores the display; clear() leaves every cell false.       *)
(***************************************************************************)
C12_DisplayStep ==
    /\ (result'.call = "flip_pixel" /\ InGrid(result'.arg)) =>
          /\ IsOk(result'.ret)
          /\ \A x \in 0 .. DisplayWidth - 1 : \A y \in 0 .. DisplayHeight - 1 :
                (<<x, y>> \in display') = (Cell(x, y) # (<<x, y>> = result'.arg))
          /\ flip_pixel(display', result'.arg[1], result'.arg[2]) = Ok(display)
    /\ result'.call = "clear" =>
          \A x \in 0 .. DisplayWidth - 1 : \A y \in 0 .. DisplayHeight - 1 :
              <<x, y>> \notin display'

C12_FlipSelfInverse == [][C12_DisplayStep]_vars

\* Three cells lit, the last by a flip at the far corner of the grid
C12_Witness ==
    /\ result.call = "flip_pixel"
    /\ result.arg = <<DisplayWidth - 1, DisplayHeight - 1>>
    /\ display = {<<0, 0>>, <<10, 0>>, <<DisplayWidth - 1, DisplayHeight - 1>>}

(***************************************************************************)
(* What the properties of the register instructions read off a step        *)
(***************************************************************************)
\* The step executes the word fetched at pc, of the form 8xyN
ExecutesRegisterWord(low) ==
    /\ ExecuteStep
    /\ Fetchable
    /\ HighNibble(FetchedWord) = 8
    /\ LowNibble(FetchedWord) = low

\* The registers the fetched word names, and their values before the step
X == XNibble(FetchedWord)
Y == YNibble(FetchedWord)
VX == gp_registers[X]
VY == gp_registers[Y]

\* The step leaves every register other than V[x] and VF as it was
OnlyVXAndVFChange ==
    \A r \in 0 .. NumRegisters - 1 :
        r \notin {X, FlagRegister} => gp_registers'[r] = gp_registers[r]

\* The step changes nothing but registers, and PC by 2
OnlyRegistersChange ==
    /\ IsOk(result'.ret)
    /\ pc' = pc + 2
    /\ UNCHANGED <<i, memory, display, stack>>

(***************************************************************************)
(* C13.  AddV2(x, y) with a = V[x], b = V[y]: afterwards VF = 1 if         *)
(* a + b > 255 and 0 otherwise, and for x # 15 V[x] = (a + b) mod 256;     *)
(* no other register changes.                                              *)
(***************************************************************************)
C13_AddV2Step ==
    ExecutesRegisterWord(4) =>
        /\ OnlyRegistersChange
        /\ OnlyVXAndVFChange
        /\ gp_registers'[FlagRegister] = IF VX + VY > 255 THEN 1 ELSE 0
        /\ X # FlagRegister => gp_registers'[X] = (VX + VY) % 256

C13_AddV2 == [][C13_AddV2Step]_vars

\* V0 = 250, V1 = 10, AddV2(0, 1): V0 = 4, VF = 1
C13_Witness ==
    /\ result.call = "execute_once"
    /\ pc = \h208
    /\ Byte(\h203) = 250
    /\ Byte(\h206) * 256 + Byte(\h207) = \h8014
    /\ gp_registers[0] = 4 /\ gp_registers[1] = 10 /\ gp_registers[FlagRegister] = 1

(***************************************************************************)
(* C14.  SubV2(x, y) with x # 15, a = V[x], b = V[y]: afterwards           *)
(* V[x] = (a - b) mod 256 and VF = 1 if a >= b, 0 if a < b; no other       *)
(* register changes.                                                       *)
(***************************************************************************)
C14_SubV2Step ==
    (ExecutesRegisterWord(5) /\ X # FlagRegister) =>
        /\ OnlyRegistersChange
        /\ OnlyVXAndVFChange
        /\ gp_registers'[X] = (VX - VY) % 256
        /\ gp_registers'[FlagRegister] = IF VX >= VY THEN 1 ELSE 0

Src == IF legacy_shift THEN VY ELSE VX

C15_ShiftStep ==
    /\ (ExecutesRegisterWord(6) /\ X # FlagRegister) =>
          /\ OnlyRegistersChange
          /\ OnlyVXAndVFChange
          /\ gp_registers'[X] = Src \div 2
          /\ gp_registers'[FlagRegister] = Src % 2
    /\ (ExecutesRegisterWord(14) /\ X # FlagRegister) =>
          /\ OnlyRegistersChange
          /\ OnlyVXAndVFChange
          /\ gp_registers'[X] = (Src * 2) % 256
          /\ gp_registers'[FlagRegister] = IF Src >= 128 THEN 1 ELSE 0
    /\ legacy_shift' = legacy_shift

C15_Shift == [][C15_ShiftStep]_vars

\* legacy_shift, V0 = 10, V1 = 0b011, ShiftRight(0, 1): V0 = 0b001, VF = 1
C15_Witness ==
    /\ result.call = "execute_once"
    /\ pc = \h208
    /\ legacy_shift
    /\ Byte(\h203) = 10
    /\ Byte(\h206) * 256 + Byte(\h207) = \h8016
    /\ gp_registers[0] = 1 /\ gp_registers[1] = 3 /\ gp_registers[FlagRegister] = 1

(***************************************************************************)
(* C16.  The stack is empty after every successful load_program, whatever  *)
(* Calls ran before it: a Return that is the first instruction executed    *)
(* after the load fails with StackPopFail and PC is not set to an address  *)
(* pushed before the load.                                                 *)
(***************************************************************************)
C16_ReloadStep ==
    /\ (LoadStep /\ IsOk(result'.ret)) => stack' = <<>>
    /\ (ExecuteStep /\ Loaded /\ Fetchable /\ FetchedWord = \h00EE) =>
          /\ result'.ret = Err([error |-> "StackPopFail", source |-> Unit])
          /\ pc' = pc + 2

C16_LoadClearsStack == [][C16_ReloadStep]_vars

(***************************************************************************)
(* C17.  SubNV2(x, y), x or y = 15 included, computes the difference and   *)
(* the flag from a = V[x] and b = V[y] as they were before the             *)
(* instruction: V[x] receives (b - a) mod 256 and the flag is 1 iff b > a  *)
(* (when x = 15 the one register holds one of the two).                    *)
(***************************************************************************)
C17_SubNV2Step ==
    ExecutesRegisterWord(7) =>
        LET difference == (VY - VX) % 256
            flag == IF VY > VX THEN 1 ELSE 0
        IN /\ OnlyRegistersChange
           /\ OnlyVXAndVFChange
           /\ X # FlagRegister =>
                 /\ gp_registers'[X] = difference
                 /\ gp_registers'[FlagRegister] = flag
           /\ X = FlagRegister => gp_registers'[X] \in {difference, flag}

C17_SubNV2ReadsOperandsFirst == [][C17_SubNV2Step]_vars

(***************************************************************************)
(* C18.  The operands of every decoded instruction are the fixed bit       *)
(* fields of the opcode: register index = bits 8-11, second register =     *)
(* bits 4-7, 8-bit immediate = bits 0-7, address and LoadIImm's immediate  *)
(* = bits 0-11, sprite length = bits 0-3; so every register index is in    *)
(* 0 .. 15 and every address in 0 .. 4095.                                 *)
(***************************************************************************)
C18_OperandFields ==
    (result.call = "try_from" /\ IsOk(result.ret)) =>
        LET instruction == result.ret.val
            opcode == result.arg
            tag == instruction.tag
        IN /\ tag \in {"LoadVImm", "AddVImm", "SkipIfEqVImm", "SkipIfNotEqVImm"} =>
                 /\ instruction.reg_num = XNibble(opcode)
                 /\ instruction.reg_num \in 0 .. 15
                 /\ instruction.imm = LowByte(opcode)
           /\ tag \in {"SkipIfEqualV2", "SkipIfNotEqualV2", "SetEqual",
                       "BitWiseOrEqual", "Draw"} =>
                 /\ instruction.x_reg_num = XNibble(opcode)
                 /\ instruction.y_reg_num = YNibble(opcode)
                 /\ instruction.x_reg_num \in 0 .. 15
                 /\ instruction.y_reg_num \in 0 .. 15
           /\ tag = "Draw" => instruction.sprite_length = LowNibble(opcode)
           /\ tag \in {"JumpTo", "Call", "Sys"} =>
                 /\ instruction.address = opcode % 4096
                 /\ instruction.address \in 0 .. 4095
           /\ tag = "LoadIImm" =>
                 /\ instruction.imm = opcode % 4096
                 /\ instruction.imm \in 0 .. 4095
           /\ tag \in {"ClearScreen", "Return"} => DOMAIN instruction = {"tag"}

\* 0xD5A3 is Draw(5, 10, 3)
C18_Witness ==
    /\ result.call = "try_from"
    /\ result.arg = \hD5A3
    /\ result.ret = Ok([tag |-> "Draw", x_reg_num |-> 5, y_reg_num |-> 10,
                        sprite_length |-> 3])

(***************************************************************************)
(* C19.  A skip instruction fetched at address a leaves PC = a + 4 when    *)
(* its condition holds on the registers before it (V[r] = imm, V[r] # imm, *)
(* V[x] = V[y], V[x] # V[y]) and PC = a + 2 otherwise; registers, I,       *)
(* memory, display and stack are unchanged.                                *)
(***************************************************************************)
SkipCondition ==
    CASE HighNibble(FetchedWord) = 3 -> VX = LowByte(FetchedWord)
      [] HighNibble(FetchedWord) = 4 -> VX # LowByte(FetchedWord)
      [] HighNibble(FetchedWord) = 5 -> VX = VY
      [] HighNibble(FetchedWord) = 9 -> VX # VY

C19_SkipStep ==
    (/\ ExecuteStep
     /\ Fetchable
     /\ \/ HighNibble(FetchedWord) \in {3, 4}
        \/ HighNibble(FetchedWord) \in {5, 9} /\ LowNibble(FetchedWord) = 0) =>
        /\ IsOk(result'.ret)
        /\ pc' = IF SkipCondition THEN pc + 4 ELSE pc + 2
        /\ UNCHANGED <<gp_registers, i, memory, display, stack>>

C19_Skip == [][C19_SkipStep]_vars

\* V0 = 5, V1 = 10, SkipIfNotEqualV2(0, 1) fetched at 0x206: PC = 0x20A
C19_Witness ==
    /\ result.call = "execute_once"
    /\ cycles = 4
    /\ pc = \h20A
    /\ Byte(\h206) * 256 + Byte(\h207) = \h9010
    /\ gp_registers[0] = 5 /\ gp_registers[1] = 10

(***************************************************************************)
(* C20.  AddVImm(r, imm) leaves V[r] = (V[r] + imm) mod 256 and every      *)
(* other register as it was: for r # 15 VF is not written, also when the   *)
(* sum passes 255.                                                         *)
(***************************************************************************)
C20_AddVImmStep ==
    (ExecuteStep /\ Fetchable /\ HighNibble(FetchedWord) = 7) =>
        /\ OnlyRegistersChange
        /\ gp_registers'[X] = (VX + LowByte(FetchedWord)) % 256
        /\ \A r \in 0 .. NumRegisters - 1 : r # X => gp_registers'[r] = gp_registers[r]

C20_AddVImm == [][C20_AddVImmStep]_vars

\* VF = 9, V0 = 250, AddVImm(0, 10): V0 = 4 and VF still 9
C20_Witness ==
    /\ result.call = "execute_once"
    /\ pc = \h208
    /\ Byte(\h203) = 250
    /\ Byte(\h206) * 256 + Byte(\h207) = \h700A
    /\ gp_registers[0] = 4 /\ gp_registers[FlagRegister] = 9

(***************************************************************************)
(* C21.  SaveRegistersToMem(n) with I + n <= 4095 writes                   *)
(* Memory[I + o] = V[o] for o in 0 .. n and changes no other byte, no      *)
(* register and not I; LoadRegistersFromMem(n) with I + n <= 4095 sets     *)
(* V[o] = Memory[I + o] for o in 0 .. n and leaves the registers above n,  *)
(* I and the memory as they were.  So a Save followed by a Load with the   *)
(* same I restores V0..Vn.                                                 *)
(***************************************************************************)
\* The step executes the word fetched at pc, of the form Fxkk
ExecutesMemoryWord(low) ==
    /\ ExecuteStep
    /\ Fetchable
    /\ HighNibble(FetchedWord) = 15
    /\ LowByte(FetchedWord) = low

C21_SaveStep ==
    (ExecutesMemoryWord(\h55) /\ i + X <= 4095) =>
        /\ IsOk(result'.ret)
        /\ \A address \in 0 .. RamSize - 1 :
              byte_at(memory', address) =
                  IF address >= i /\ address <= i + X
                  THEN gp_registers[address - i]
                  ELSE Byte(address)
        /\ pc' = pc + 2
        /\ UNCHANGED <<gp_registers, i, display, stack>>

C21_LoadStep ==
    (ExecutesMemoryWord(\h65) /\ i + X <= 4095) =>
        /\ IsOk(result'.ret)
        /\ \A r \in 0 .. NumRegisters - 1 :
              gp_registers'[r] = IF r <= X THEN Byte(i + r) ELSE gp_registers[r]
        /\ pc' = pc + 2
        /\ UNCHANGED <<i, memory, display, stack>>

C21_SaveLoad == [][C21_SaveStep /\ C21_LoadStep]_vars

\* V0 = 10, V1 = 11 saved at 0x300, the three registers overwritten with
\* 0xEE, then Load(1): V0 and V1 are back, VF is still 0xEE
C21_Witness ==
    /\ result.call = "execute_once"
    /\ IsOk(result.ret)
    /\ cycles = 9
    /\ pc = \h212
    /\ Byte(\h211) = \h65
    /\ i = \h300
    /\ Byte(\h300) = 10 /\ Byte(\h301) = 11 /\ Byte(\h302) = 0
    /\ gp_registers[0] = 10 /\ gp_registers[1] = 11
    /\ gp_registers[FlagRegister] = \hEE

(***************************************************************************)
(* C22.  BCDRegister(r) with I + 2 <= 4095 stores the hundreds, tens and   *)
(* ones of v = V[r] at Memory[I], Memory[I + 1], Memory[I + 2]:            *)
(* 100 * Memory[I] + 10 * Memory[I + 1] + Memory[I + 2] = v with digits    *)
(* <= 2, <= 9, <= 9; no register, not I and no other byte changes.         *)
(***************************************************************************)
C22_BcdStep ==
    (ExecutesMemoryWord(\h33) /\ i + 2 <= 4095) =>
        /\ IsOk(result'.ret)
        /\ 100 * byte_at(memory', i) + 10 * byte_at(memory', i + 1)
              + byte_at(memory', i + 2) = VX
        /\ byte_at(memory', i) <= 2
        /\ byte_at(memory', i + 1) <= 9
        /\ byte_at(memory', i + 2) <= 9
        /\ \A address \in 0 .. RamSize - 1 :
              address \notin {i, i + 1, i + 2} => byte_at(memory', address) = Byte(address)
        /\ pc' = pc + 2
        /\ UNCHANGED <<gp_registers, i, display, stack>>

C22_Bcd == [][C22_BcdStep]_vars

\* V1 = 254, I = 0x300, BCDRegister(1): 2, 5, 4 at 0x300 .. 0x302
C22_Witness ==
    /\ result.call = "execute_once"
    /\ IsOk(result.ret)
    /\ cycles = 3
    /\ Byte(\h204) * 256 + Byte(\h205) = \hF133
    /\ gp_registers[1] = 254
    /\ i = \h300
    /\ Byte(\h300) = 2 /\ Byte(\h301) = 5 /\ Byte(\h302) = 4

(***************************************************************************)
(* C23.  A load_program call that fails leaves the Executor as it was: no  *)
(* byte of the memory is written and PC, V0..VF, I, the display and the    *)
(* stack keep their values.                                                *)
(***************************************************************************)
C23_FailedLoadStep ==
    (LoadStep /\ ~IsOk(result'.ret)) =>
        UNCHANGED <<memory, pc, gp_registers, i, display, stack, legacy_shift>>

C23_FailedLoad == [][C23_FailedLoadStep]_vars

\* DrawProgram after its first Draw, then the load of a ROM that is too long
C23_Witness ==
    /\ result.call = "load_program"
    /\ IsErr(result.ret)
    /\ pc = \h208
    /\ gp_registers[0] = 10
    /\ i = \h300
    /\ display = {<<10, 0>>, <<12, 0>>}
    /\ Byte(\h300) = \hA0

(***************************************************************************)
(* C24.  Every address in the stack is even and in 2 .. 4096: it is the    *)
(* address of a fetched Call plus 2.  So the PC a Return installs is even.  *)
(***************************************************************************)
StackAddressesEven ==
    \A k \in 1 .. Len(stack) :
        /\ stack[k] % 2 = 0
        /\ stack[k] >= 2
        /\ stack[k] <= RamSize

C24_ReturnStep ==
    (ExecuteStep /\ Fetchable /\ FetchedWord = \h00EE /\ IsOk(result'.ret)) =>
        /\ pc' = stack[Len(stack)]
        /\ pc' % 2 = 0

C24_StackAddresses == []StackAddressesEven /\ [][C24_ReturnStep]_vars

\* FullProgram's Call at 0xFFE, the last word of the memory, has pushed 4096
C24_Witness ==
    /\ result.call = "execute_once"
    /\ IsOk(result.ret)
    /\ stack = <<RamSize>>
    /\ pc = \h202

=============================================================================
